---- MODULE Spec2Model ----
(***************************************************************************)
(* A model of the idwall API wrapper (src/idwall.py): the transport        *)
(* IdwallAuth.make_request, the resource accessors (Matrices, People,      *)
(* Companies, Reports, ReportManager) and their derived helpers, run       *)
(* against a backend that answers every request with a status code and a   *)
(* JSON document.                                                          *)
(*                                                                         *)
(* Employee.is_workday of the tutorial script (src/oop.py) is modelled as  *)
(* a function of a datetime.date.                                          *)
(*                                                                         *)
(* JSON objects and Python dicts are functions from key strings to values, *)
(* JSON arrays and Python lists are sequences.  A URL is a record          *)
(* [origin, path] whose path is the list path.split('/'); an endpoint is   *)
(* the list endpoint.split('/').                                           *)
(***************************************************************************)
EXTENDS Integers, Sequences, FiniteSets, TLC

(* ------------------------------ bounds -------------------------------- *)

\* Number of page documents the backend stores per detail resource.
MaxPages == 3

\* all_reports is not started once the stored first page holds more records
\* than this (a backend that hands out its stored documents sees them grow).
MaxRecords == 4

(* ------------------------- Python / JSON values ----------------------- *)

\* Python's None.
None == [none |-> TRUE]

\* The empty dict {}.
EmptyDict == [k \in {} |-> 0]

\* dict.update: d.update(e) leaves d's keys, overwritten by e's.
DictUpdate(d, e) ==
  [k \in (DOMAIN d) \cup (DOMAIN e) |-> IF k \in DOMAIN e THEN e[k] ELSE d[k]]

\* A dict without the keys in ks.
DictWithout(d, ks) == [k \in (DOMAIN d) \ ks |-> d[k]]

\* What a call produced: a returned value or a raised exception.
Return(v) == [kind |-> "return", value |-> v]
Raise(e, st) == [kind |-> "raise", error |-> e, status |-> st]
NoOutcome == [kind |-> "none"]

(* ------------------------------ URLs ---------------------------------- *)

\* "https://api-v2.idwall.co/": origin, and path "/" split on '/'.
BaseUrl == [origin |-> "https://api-v2.idwall.co", path |-> <<"", "">>]

\* filter(None, segments): the empty segments are dropped.
RECURSIVE DropEmpty(_)
DropEmpty(s) ==
  IF s = <<>> THEN <<>>
  ELSE IF Head(s) = "" THEN DropEmpty(Tail(s))
  ELSE <<Head(s)>> \o DropEmpty(Tail(s))

\* The loop of urljoin over the segments: '..' pops, '.' is skipped.
RECURSIVE ResolveDots(_, _)
ResolveDots(segs, acc) ==
  IF segs = <<>> THEN acc
  ELSE IF Head(segs) = ".."
    THEN ResolveDots(Tail(segs), IF acc = <<>> THEN acc ELSE SubSeq(acc, 1, Len(acc) - 1))
  ELSE IF Head(segs) = "."
    THEN ResolveDots(Tail(segs), acc)
  ELSE ResolveDots(Tail(segs), Append(acc, Head(segs)))

\* urllib.parse.urljoin(base, endpoint) for an endpoint without scheme,
\* authority, query or fragment.
UrlJoin(base, ep) ==
  IF ep = <<"">> THEN base
  ELSE
    LET bparts == IF base.path[Len(base.path)] # ""
                    THEN SubSeq(base.path, 1, Len(base.path) - 1)
                    ELSE base.path
        joined == bparts \o ep
        segments ==
          IF ep[1] = "" THEN ep
          ELSE <<joined[1]>>
                 \o DropEmpty(SubSeq(joined, 2, Len(joined) - 1))
                 \o <<joined[Len(joined)]>>
        resolved0 == ResolveDots(segments, <<>>)
        resolved == IF segments[Len(segments)] \in {".", ".."}
                      THEN Append(resolved0, "") ELSE resolved0
    IN [origin |-> base.origin,
        path |-> IF resolved \in {<<>>, <<"">>} THEN <<"", "">> ELSE resolved]

(* --------------------------- the transport ---------------------------- *)

\* Status codes the backend answers with.
Statuses == {200, 300, 404}

\* Response.raise_for_status(): an HTTPError for 4xx and 5xx, nothing else.
RaisesForStatus(st) == 400 <= st /\ st < 600

\* A slip: the error is swallowed and the body is handed back.
MakeRequestSwallows(st, body) == Return(body)

\* make_request after the response arrived: raise_for_status(), then
\* response.json(); the caught HTTPError is raised again as it is.
MakeRequestResult(st, body) ==
  IF RaisesForStatus(st) THEN Raise("HTTPError", st) ELSE Return(body)

\* The request make_request sends.
MakeRequestSend(base, hdrs, method, ep, data, params) ==
  [method |-> method, url |-> UrlJoin(base, ep), headers |-> hdrs,
   json |-> data, params |-> params]

(* ----------------------------- the backend ---------------------------- *)

\* A report record of page p; res is its 'resultado'.
ReportRec(p, i, res) ==
  [numero |-> 10 * p + i, status |-> "CONCLUIDO", resultado |-> res]

\* The record lists a page document may carry.
ListKinds == {"two", "one", "empty", "noResultado"}

PageList(p, kind) ==
  CASE kind = "two" -> <<ReportRec(p, 1, "VALID"), ReportRec(p, 2, "INVALID")>>
    [] kind = "one" -> <<ReportRec(p, 1, "INVALID")>>
    [] kind = "empty" -> <<>>
    [] kind = "noResultado" -> <<[numero |-> 10 * p + 1, status |-> "PENDENTE"]>>

\* The declared page count as JSON carries it: a number or a digit string.
JsonNumber(n) == [json |-> "number", val |-> n]
JsonString(n) == [json |-> "string", val |-> n]
Totals == {JsonNumber(n) : n \in 0..MaxPages} \cup {JsonString(MaxPages)}

\* A page document of a detail resource.  Kinds "noResult" and "noDados"
\* lack the envelope keys; every other kind is a well-formed page.
PageDoc(p, kind, total) ==
  CASE kind = "noResult" -> [message |-> "sem resultado"]
    [] kind = "noDados" -> [result |-> [paginacao |-> [total |-> total]]]
    [] OTHER -> [result |-> [dados |-> [relatorios |-> PageList(p, kind)],
                             paginacao |-> [total |-> total]]]

\* The document of relatorios/{id}/dados.
ReportDocKinds ==
  {"done", "doneInvalid", "pending", "onlyStatus", "noFields", "noResult",
   "nullResult"}

ReportDoc(kind) ==
  CASE kind = "done" -> [result |-> [status |-> "CONCLUIDO", resultado |-> "VALID"]]
    [] kind = "doneInvalid" ->
         [result |-> [status |-> "CONCLUIDO", resultado |-> "INVALID"]]
    [] kind = "pending" -> [result |-> [status |-> "PROCESSANDO", resultado |-> "INVALID"]]
    [] kind = "onlyStatus" -> [result |-> [status |-> "CONCLUIDO"]]
    [] kind = "noFields" -> [result |-> [numero |-> 11]]
    [] kind = "noResult" -> [message |-> "sem resultado"]
    [] kind = "nullResult" -> [result |-> None]

\* The document of every other resource.
GenericDoc == [message |-> "OK"]

\* The document the backend holds for a request: detail resources are
\* paged by the 'page' query parameter.
Respond(store, rdoc, req) ==
  LET path == req.url.path IN
  IF Len(path) = 3 /\ path[1] = "" /\ path[2] \in {"pessoas", "empresas"}
    THEN IF req.params # None /\ "page" \in DOMAIN req.params
              /\ req.params["page"] \in 1..MaxPages
           THEN store[req.params["page"]]
           ELSE PageDoc(0, "empty", JsonNumber(0))
  ELSE IF Len(path) = 4 /\ path[1] = "" /\ path[2] = "relatorios" /\ path[4] = "dados"
    THEN rdoc
  ELSE GenericDoc

(* ------------------------------- state -------------------------------- *)

VARIABLES
  token, base_url, headers,  \* IdwallAuth attributes
  report_id,                 \* Reports.report_id
  ctor,                      \* the arguments the objects were constructed with
  shared,                    \* TRUE: responses are the stored documents themselves
  docs,                      \* the backend's stored page documents
  reportData,                \* the backend's stored report-data document
  pc,                        \* "idle", or "paging" inside all_reports
  ar,                        \* the locals of the running all_reports
  call,                      \* the call in progress or last completed
  outcome,                   \* what the last completed call produced
  prev,                      \* outcome of the preceding call when it was the same call
  log,                       \* requests sent by the current call, in order
  received,                  \* responses received by the current call, in order
  day,                       \* the argument of the last Employee.is_workday call
  workday                    \* what that call returned

client == <<token, base_url, headers, report_id, ctor>>
backend == <<shared, docs, reportData>>
employee == <<day, workday>>
vars == <<token, base_url, headers, report_id, ctor, shared, docs, reportData,
          pc, ar, call, outcome, prev, log, received, day, workday>>

Tokens == {"tok-A"}
ReportIds == {"r1"}

\* A slip: the token is prefixed instead of being sent as given.
InitHeadersBearer(tok) ==
  [k \in {"Content-Type", "Authorization"} |->
     IF k = "Content-Type" THEN "application/json" ELSE "Bearer"]

\* IdwallAuth.__init__: the header dictionary.
InitHeaders(tok) ==
  [k \in {"Content-Type", "Authorization"} |->
     IF k = "Content-Type" THEN "application/json" ELSE tok]

NoRun == [cls |-> "none"]

\* is_workday has not been called.
NoDay == [year |-> 0, month |-> 0, day |-> 0]

InitWith(sharing, firstKinds, laterKinds, reportKinds) ==
  /\ token \in Tokens
  /\ base_url = BaseUrl
  /\ headers = InitHeaders(token)
  /\ report_id \in ReportIds
  /\ ctor = [token |-> token, report_id |-> report_id]
  /\ shared \in sharing
  /\ \E total \in Totals :
       \E kinds \in [1..MaxPages -> firstKinds \cup laterKinds] :
         /\ kinds[1] \in firstKinds
         /\ \A p \in 2..MaxPages : kinds[p] \in laterKinds
         /\ docs = [p \in 1..MaxPages |-> PageDoc(p, kinds[p], total)]
  /\ \E k \in reportKinds : reportData = ReportDoc(k)
  /\ pc = "idle"
  /\ ar = NoRun
  /\ call = [op |-> "none"]
  /\ outcome = NoOutcome
  /\ prev = NoOutcome
  /\ log = <<>>
  /\ received = <<>>
  /\ day = NoDay
  /\ workday = NoOutcome

\* A backend that parses every response afresh and whose documents all
\* have the documented shape.
Init == InitWith({FALSE}, {"two"}, {"two"}, {"done"})

\* A backend that may hand out its stored documents themselves, and whose
\* page documents may lack the envelope keys or the fields read from them.
InitHistory ==
  InitWith(BOOLEAN, ListKinds \cup {"noResult", "noDados"}, {"two", "noResult"},
           {"done"})

(* ------------------- reading the returned document -------------------- *)

\* details['result']['dados']['relatorios'][0][field]
FirstReportField(d, field) ==
  IF "result" \notin DOMAIN d THEN Raise("KeyError", 0)
  ELSE IF "dados" \notin DOMAIN d["result"] THEN Raise("KeyError", 0)
  ELSE IF "relatorios" \notin DOMAIN d["result"]["dados"] THEN Raise("KeyError", 0)
  ELSE LET rs == d["result"]["dados"]["relatorios"] IN
       IF Len(rs) = 0 THEN Raise("IndexError", 0)
       ELSE IF field \notin DOMAIN rs[1] THEN Raise("KeyError", 0)
       ELSE Return(rs[1][field])

\* if status_last_report == 'CONCLUIDO': return True / else: return False
LastReportStatusOf(d) ==
  LET f == FirstReportField(d, "status") IN
  IF f.kind = "raise" THEN f ELSE Return(f.value = "CONCLUIDO")

\* A slip: the 'status' field is read and compared with 'CONCLUIDO', as in
\* last_report_status.
IsApprovedByStatus(d) ==
  LET f == FirstReportField(d, "status") IN
  IF f.kind = "raise" THEN f ELSE Return(f.value = "CONCLUIDO")

\* if status_last_report == 'VALID': return True / else: return False
IsApprovedOf(d) ==
  LET f == FirstReportField(d, "resultado") IN
  IF f.kind = "raise" THEN f ELSE Return(f.value = "VALID")

LastReportOf(d) == FirstReportField(d, "numero")

\* A slip: the field is read as the People and Companies helpers read
\* theirs, data['result'][field], which raises when a key is absent.
GetResultFieldStrict(d, field) ==
  IF "result" \notin DOMAIN d THEN [kind |-> "raise", error |-> "KeyError"]
  ELSE IF d["result"] = None THEN [kind |-> "raise", error |-> "TypeError"]
  ELSE IF field \in DOMAIN d["result"]
    THEN [kind |-> "present", value |-> d["result"][field]]
  ELSE [kind |-> "raise", error |-> "KeyError"]

\* data.get('result', {}).get(field): None when a key is absent; a
\* 'result' that is null has no get.
GetResultField(d, field) ==
  IF "result" \notin DOMAIN d THEN [kind |-> "absent"]
  ELSE IF d["result"] = None THEN [kind |-> "raise", error |-> "AttributeError"]
  ELSE IF field \in DOMAIN d["result"]
    THEN [kind |-> "present", value |-> d["result"][field]]
  ELSE [kind |-> "absent"]

ReportFinishedOf(d) ==
  LET f == GetResultField(d, "status") IN
  IF f.kind = "raise" THEN Raise(f.error, 0)
  ELSE Return(f.kind = "present" /\ f.value = "CONCLUIDO")

ReportValidOf(d) ==
  LET f == GetResultField(d, "resultado") IN
  IF f.kind = "raise" THEN Raise(f.error, 0)
  ELSE Return(f.kind = "present" /\ f.value = "VALID")

\* What the body of an operation does with the document make_request
\* returned.
After(post, d) ==
  CASE post = "json" -> Return(d)
    [] post = "last_report_status" -> LastReportStatusOf(d)
    [] post = "is_approved" -> IsApprovedOf(d)
    [] post = "last_report" -> LastReportOf(d)
    [] post = "report_finished" -> ReportFinishedOf(d)
    [] post = "report_valid" -> ReportValidOf(d)

(* ------------------------- completing a call -------------------------- *)

\* The call c ends with outcome out after sending reqs and receiving resps.
\* prev keeps the outcome of the call before it when that was the same
\* read-only call.
Finish(c, readOnly, reqs, resps, out) ==
  /\ call' = c
  /\ prev' = IF readOnly /\ c = call THEN outcome ELSE NoOutcome
  /\ log' = reqs
  /\ received' = resps
  /\ outcome' = out
  /\ pc' = "idle"
  /\ ar' = NoRun

\* An operation that calls make_request once and hands the parsed document
\* to what follows the call in its body (post); an HTTPError passes through
\* the operation untouched.
OneRequest(c, readOnly, method, ep, data, params, post) ==
  /\ \E st \in Statuses :
       LET req == MakeRequestSend(base_url, headers, method, ep, data, params)
           body == Respond(docs, reportData, req)
           r == MakeRequestResult(st, body)
       IN Finish(c, readOnly, <<req>>, <<[status |-> st, body |-> body]>>,
                 IF r.kind = "raise" THEN r ELSE After(post, r.value))
  /\ UNCHANGED <<client, backend, employee>>

\* An operation that fails before its body sends anything.
FailsEarly(c, err) ==
  /\ Finish(c, FALSE, <<>>, <<>>, Raise(err, 0))
  /\ UNCHANGED <<client, backend, employee>>

(* ----------------------------- IdwallAuth ----------------------------- *)

\* Relative paths handed to make_request: 'status', 'relatorios/999'.
DirectEndpoints == {<<"status">>, <<"relatorios", "999">>}
\* (method, data, params) of the direct calls.
DirectArgs ==
  {<<"GET", None, None>>, <<"GET", None, [q |-> "x"]>>,
   <<"POST", [matriz |-> "m1"], None>>}

MakeRequest ==
  /\ pc = "idle"
  /\ \E ep \in DirectEndpoints, a \in DirectArgs :
       OneRequest([op |-> "make_request", method |-> a[1], endpoint |-> ep,
                   data |-> a[2], params |-> a[3]],
                  FALSE, a[1], ep, a[2], a[3], "json")

GetApiStatus ==
  /\ pc = "idle"
  /\ OneRequest([op |-> "get_api_status"], TRUE, "GET", <<"status">>, None, None, "json")

GetUserProfile ==
  /\ pc = "idle"
  /\ OneRequest([op |-> "get_user_profile"], TRUE, "GET", <<"usuario">>, None, None, "json")

(* ------------------------------ Matrices ------------------------------ *)

MatrixIds == {"m1"}

ListMatrices ==
  /\ pc = "idle"
  /\ OneRequest([op |-> "list_matrices"], TRUE, "GET", <<"matrizes">>, None, None, "json")

GetMatrixDetails ==
  /\ pc = "idle"
  /\ \E id \in MatrixIds :
       OneRequest([op |-> "get_matrix_details", id |-> id], TRUE,
                  "GET", <<"matrizes", id>>, None, None, "json")

(* ------------------------- People and Companies ----------------------- *)

\* The defaults of size and page.
DefaultRows == 25
DefaultPage == 1

\* The calls of the paged accessors: the positional values given for
\* (size, page) and the keyword arguments given.
PagedArgs ==
  {<<pos, kw>> : pos \in {<<>>, <<10, 2>>},
                 kw \in {EmptyDict, [rows |-> 7], [page |-> 3]}}
    \cup {<<(<<10>>), [q |-> "x"]>>}

\* Binding of a call's arguments to (size=25, page=1, **kwargs): a keyword
\* that names a parameter is that parameter; a parameter given twice is a
\* TypeError raised before the body runs.
BindPaged(pos, kw) ==
  IF \/ Len(pos) >= 1 /\ "size" \in DOMAIN kw
     \/ Len(pos) >= 2 /\ "page" \in DOMAIN kw
  THEN [error |-> TRUE]
  ELSE [error |-> FALSE,
        size |-> IF Len(pos) >= 1 THEN pos[1]
                 ELSE IF "size" \in DOMAIN kw THEN kw["size"] ELSE DefaultRows,
        page |-> IF Len(pos) >= 2 THEN pos[2]
                 ELSE IF "page" \in DOMAIN kw THEN kw["page"] ELSE DefaultPage,
        kwargs |-> DictWithout(kw, {"size", "page"})]

\* A slip: the pair derived from size and page is written over the extras.
PagedPayloadDerivedLast(size, page, kwargs) ==
  DictUpdate(kwargs, [rows |-> size, page |-> page])

\* payload = {'rows': size, 'page': page}; payload.update(kwargs)
PagedPayload(size, page, kwargs) == DictUpdate([rows |-> size, page |-> page], kwargs)

Cpfs == {"12345678901"}
Cnpjs == {"12345678901234"}

BasePath(cls) == IF cls = "People" THEN "pessoas" ELSE "empresas"
DocIds(cls) == IF cls = "People" THEN Cpfs ELSE Cnpjs

\* list_consulted_people / list_consulted_companies
ListConsulted(cls) ==
  \E a \in PagedArgs :
    LET pos == a[1]
        kw == a[2]
        c == [op |-> "list_consulted", cls |-> cls, pos |-> pos, kw |-> kw]
        b == BindPaged(pos, kw)
    IN IF b.error THEN FailsEarly(c, "TypeError")
       ELSE OneRequest(c, TRUE, "GET", <<BasePath(cls)>>, None,
                       PagedPayload(b.size, b.page, b.kwargs), "json")

\* get_person_details / get_company_details
GetDetails(cls) ==
  \E id \in DocIds(cls), a \in PagedArgs :
    LET pos == a[1]
        kw == a[2]
        c == [op |-> "get_details", cls |-> cls, id |-> id, pos |-> pos, kw |-> kw]
        b == BindPaged(pos, kw)
    IN IF b.error THEN FailsEarly(c, "TypeError")
       ELSE OneRequest(c, TRUE, "GET", <<BasePath(cls), id>>, None,
                       PagedPayload(b.size, b.page, b.kwargs), "json")

ListConsultedPeople ==
  /\ pc = "idle"
  /\ ListConsulted("People")
GetPersonDetails ==
  /\ pc = "idle"
  /\ GetDetails("People")
ListConsultedCompanies ==
  /\ pc = "idle"
  /\ ListConsulted("Companies")
GetCompanyDetails ==
  /\ pc = "idle"
  /\ GetDetails("Companies")

\* A helper that calls get_*_details(id) with the default size and page.
DetailHelper(op, cls, post) ==
  \E id \in DocIds(cls) :
    OneRequest([op |-> op, cls |-> cls, id |-> id], TRUE, "GET",
               <<BasePath(cls), id>>, None,
               PagedPayload(DefaultRows, DefaultPage, EmptyDict), post)

LastReportStatus ==
  /\ pc = "idle"
  /\ DetailHelper("last_report_status", "People", "last_report_status")
IsPersonApproved ==
  /\ pc = "idle"
  /\ DetailHelper("is_approved", "People", "is_approved")
LastPersonReport ==
  /\ pc = "idle"
  /\ DetailHelper("last_report", "People", "last_report")
IsCompanyApproved ==
  /\ pc = "idle"
  /\ DetailHelper("is_approved", "Companies", "is_approved")
LastCompanyReport ==
  /\ pc = "idle"
  /\ DetailHelper("last_report", "Companies", "last_report")

(* ---------------------- People/Companies.all_reports ------------------ *)

\* int(total)
ToInt(t) == t.val

\* 'result' in details and 'dados' in details['result']
HasEnvelope(d) == "result" \in DOMAIN d /\ "dados" \in DOMAIN d["result"]

\* A slip: the new page's records are put in front of the list.
ExtendInFront(list, more) == more \o list

\* reports_list.extend(more): the list object itself grows.
Extend(list, more) == list \o more

\* The stored first page after the list taken from it has grown: with a
\* backend that hands out its stored documents, reports_list is the
\* 'relatorios' list of the stored first page.
Aliased(store, list) ==
  [store EXCEPT ![1] =
     [@ EXCEPT !["result"] =
        [@ EXCEPT !["dados"] = [@ EXCEPT !["relatorios"] = list]]]]

\* The request of get_*_details(id, page=page).
PageRequest(cls, id, page) ==
  MakeRequestSend(base_url, headers, "GET", <<BasePath(cls), id>>, None,
                  PagedPayload(DefaultRows, page, EmptyDict))

StoredFirstLen ==
  IF HasEnvelope(docs[1]) THEN Len(docs[1]["result"]["dados"]["relatorios"]) ELSE 0

\* all_reports up to the response of the first page: the page count and the
\* first list are read, and the loop over pages 2..pages is entered.
AllReportsFirst(cls) ==
  /\ StoredFirstLen <= MaxRecords
  /\ \E id \in DocIds(cls), st \in Statuses :
       LET c == [op |-> "all_reports", cls |-> cls, id |-> id]
           req == PageRequest(cls, id, DefaultPage)
           body == Respond(docs, reportData, req)
           resp == <<[status |-> st, body |-> body]>>
           r == MakeRequestResult(st, body)
       IN IF r.kind = "raise" THEN Finish(c, TRUE, <<req>>, resp, r)
          ELSE IF ~HasEnvelope(body)
            THEN Finish(c, TRUE, <<req>>, resp, Raise("UnboundLocalError", 0))
          ELSE IF "paginacao" \notin DOMAIN body["result"]
            THEN Finish(c, TRUE, <<req>>, resp, Raise("KeyError", 0))
          ELSE IF "relatorios" \notin DOMAIN body["result"]["dados"]
            THEN Finish(c, TRUE, <<req>>, resp, Raise("KeyError", 0))
          ELSE
            LET pages == ToInt(body["result"]["paginacao"]["total"])
                list == body["result"]["dados"]["relatorios"]
            IN IF pages >= 2
                 THEN /\ call' = c
                      /\ prev' = IF c = call THEN outcome ELSE NoOutcome
                      /\ log' = <<req>>
                      /\ received' = resp
                      /\ outcome' = NoOutcome
                      /\ pc' = "paging"
                      /\ ar' = [cls |-> cls, id |-> id, pages |-> pages,
                                page |-> 2, list |-> list]
                 ELSE Finish(c, TRUE, <<req>>, resp, Return(list))
  /\ UNCHANGED <<client, backend, employee>>

\* One pass of the loop: the request of page ar.page, and the return after
\* the last page.
AllReportsNextPage ==
  /\ pc = "paging"
  /\ \E st \in Statuses :
       LET req == PageRequest(ar.cls, ar.id, ar.page)
           body == Respond(docs, reportData, req)
           reqs == Append(log, req)
           resps == Append(received, [status |-> st, body |-> body])
           r == MakeRequestResult(st, body)
       IN IF r.kind = "raise"
            THEN /\ call' = call /\ prev' = prev /\ log' = reqs /\ received' = resps
                 /\ outcome' = r /\ pc' = "idle" /\ ar' = NoRun
                 /\ docs' = docs
          ELSE
            LET list == IF HasEnvelope(body)
                          THEN Extend(ar.list, body["result"]["dados"]["relatorios"])
                          ELSE ar.list
            IN /\ call' = call /\ prev' = prev /\ log' = reqs /\ received' = resps
               /\ docs' = IF shared THEN Aliased(docs, list) ELSE docs
               /\ IF ar.page >= ar.pages
                    THEN outcome' = Return(list) /\ pc' = "idle" /\ ar' = NoRun
                    ELSE /\ outcome' = outcome /\ pc' = "paging"
                         /\ ar' = [ar EXCEPT !.page = @ + 1, !.list = list]
  /\ UNCHANGED <<client, shared, reportData, employee>>

PeopleAllReports ==
  /\ pc = "idle"
  /\ AllReportsFirst("People")
CompaniesAllReports ==
  /\ pc = "idle"
  /\ AllReportsFirst("Companies")

(* ------------------------------- Reports ------------------------------ *)

ReportOp(op, tail) ==
  OneRequest([op |-> op], TRUE, "GET", <<"relatorios", report_id>> \o tail,
             None, None, "json")

GetReportStatus ==
  /\ pc = "idle"
  /\ ReportOp("get_report_status", <<>>)
SentParameters ==
  /\ pc = "idle"
  /\ ReportOp("sent_parameters", <<"parametros">>)
ReportQuerys ==
  /\ pc = "idle"
  /\ ReportOp("report_querys", <<"consultas">>)
ReportData ==
  /\ pc = "idle"
  /\ ReportOp("report_data", <<"dados">>)
ReportValidationRules ==
  /\ pc = "idle"
  /\ ReportOp("report_validation_rules", <<"validacoes">>)

ValidationKwargs == {EmptyDict, [motivo |-> "manual"]}

\* payload = {'aprovar': aprovar, 'mensagem': mensagem}; payload.update(kwargs)
ValidationPayload(aprovar, mensagem, kwargs) ==
  DictUpdate([aprovar |-> aprovar, mensagem |-> mensagem], kwargs)

ManualValidation ==
  /\ pc = "idle"
  /\ \E aprovar \in {TRUE}, kwargs \in ValidationKwargs :
       LET mensagem == "documento conferido manualmente" IN
       OneRequest([op |-> "manual_validation", aprovar |-> aprovar,
                   mensagem |-> mensagem, kwargs |-> kwargs], FALSE, "POST",
                  <<"relatorios", "validar", report_id>>,
                  ValidationPayload(aprovar, mensagem, kwargs), None, "json")

ReportFinished ==
  /\ pc = "idle"
  /\ OneRequest([op |-> "report_finished"], TRUE, "GET",
                <<"relatorios", report_id, "dados">>, None, None, "report_finished")

ReportValid ==
  /\ pc = "idle"
  /\ OneRequest([op |-> "report_valid"], TRUE, "GET",
                <<"relatorios", report_id, "dados">>, None, None, "report_valid")

(* ---------------------------- ReportManager --------------------------- *)

\* A Python str.
Str(s) == [str |-> s]

Matrizes == {"m1"}
Cpf == Str("12345678901")
Cnpj == Str("12345678901234")

\* The calls of create_report: the document, and the keyword arguments
\* beyond matriz and document (a keyword naming one of those two is that
\* parameter, never part of kwargs).
CreateArgs ==
  {<<d, EmptyDict>> : d \in {Cpf, Cnpj, Str(""), None}}
    \cup {<<d, [cpf_nome |-> "Ana"]>> : d \in {Cpf, Cnpj}}
    \cup {<<Cpf, [cnpj_numero |-> "999"]>>,
          <<Cpf, [parametros |-> [cpf_numero |-> "999"]]>>}

\* The length that routes a document to cnpj_numero.
CnpjLength == 14

\* A slip: the two routing keys are exchanged.
CreateParametrosSwapped(document, kwargs) ==
  DictUpdate(IF Len(document.str) = CnpjLength
               THEN [cpf_numero |-> document.str]
               ELSE [cnpj_numero |-> document.str],
             kwargs)

\* parametros of create_report, for a document that is a str.
CreateParametros(document, kwargs) ==
  DictUpdate(IF Len(document.str) = CnpjLength
               THEN [cnpj_numero |-> document.str]
               ELSE [cpf_numero |-> document.str],
             kwargs)

\* payload of create_report.
CreatePayload(matriz, document, kwargs) ==
  DictUpdate([matriz |-> matriz, parametros |-> CreateParametros(document, kwargs)],
             kwargs)

CreateReport ==
  /\ pc = "idle"
  /\ \E matriz \in Matrizes, a \in CreateArgs :
       LET document == a[1]
           kwargs == a[2]
           c == [op |-> "create_report", matriz |-> matriz, document |-> document,
                 kwargs |-> kwargs]
       IN IF document = None THEN FailsEarly(c, "TypeError")
          ELSE OneRequest(c, FALSE, "POST", <<"relatorios">>,
                          CreatePayload(matriz, document, kwargs), None, "json")

PendingReports ==
  /\ pc = "idle"
  /\ OneRequest([op |-> "pending_reports"], TRUE, "GET", <<"relatorios", "pendentes">>,
                None, None, "json")

ManagerAllReports ==
  /\ pc = "idle"
  /\ OneRequest([op |-> "manager_all_reports"], TRUE, "GET", <<"relatorios">>,
                None, None, "json")

(* ------------------------ Employee (src/oop.py) ----------------------- *)

\* The years the dates handed to is_workday are drawn from: a common year
\* and a leap year.
Years == {2023, 2024}

IsLeap(y) == y % 4 = 0 /\ (y % 100 # 0 \/ y % 400 = 0)

DaysInMonth(y, m) ==
  IF m = 2 THEN (IF IsLeap(y) THEN 29 ELSE 28)
  ELSE IF m \in {4, 6, 9, 11} THEN 30 ELSE 31

\* datetime.date(year, month, day)
Date(y, m, d) == [year |-> y, month |-> m, day |-> d]

Dates ==
  UNION {{Date(y, m, d) : d \in 1..DaysInMonth(y, m)} : y \in Years, m \in 1..12}

\* Days before 1 January of year y, in the proleptic Gregorian calendar.
DaysBeforeYear(y) ==
  LET n == y - 1 IN n * 365 + (n \div 4) - (n \div 100) + (n \div 400)

\* Days of year y before the first day of month m.
RECURSIVE DaysBeforeMonth(_, _)
DaysBeforeMonth(y, m) ==
  IF m = 1 THEN 0 ELSE DaysBeforeMonth(y, m - 1) + DaysInMonth(y, m - 1)

\* date.toordinal(): 1 January of year 1 is day 1.
ToOrdinal(dt) == DaysBeforeYear(dt.year) + DaysBeforeMonth(dt.year, dt.month) + dt.day

\* date.weekday(): Monday is 0, Sunday is 6.
Weekday(dt) == (ToOrdinal(dt) + 6) % 7

\* Python values that '==' may compare: an int, and the bound method an
\* attribute lookup without a call gives.
PyInt(n) == [int |-> n]
BoundMethod(name) == [bound_method |-> name]

\* a == b of two such values: an int equals an int of the same value, a
\* bound method equals no int.
PyEq(a, b) == a = b

\* Employee.is_workday(day):
\*   if day.weekday()==5 or day.weekday==6: return False
\*   else: return True
is_workday(dt) ==
  IF PyEq(PyInt(Weekday(dt)), PyInt(5)) \/ PyEq(BoundMethod("weekday"), PyInt(6))
    THEN FALSE
    ELSE TRUE

IsWorkday ==
  /\ pc = "idle"
  /\ \E dt \in Dates :
       /\ day' = dt
       /\ workday' = Return(is_workday(dt))
  /\ UNCHANGED <<client, backend, pc, ar, call, outcome, prev, log, received>>

(* --------------------------- specifications --------------------------- *)

Next ==
  \/ MakeRequest \/ GetApiStatus \/ GetUserProfile
  \/ ListMatrices \/ GetMatrixDetails
  \/ ListConsultedPeople \/ GetPersonDetails
  \/ LastReportStatus \/ IsPersonApproved \/ LastPersonReport
  \/ ListConsultedCompanies \/ GetCompanyDetails
  \/ IsCompanyApproved \/ LastCompanyReport
  \/ PeopleAllReports \/ CompaniesAllReports \/ AllReportsNextPage
  \/ GetReportStatus \/ ManualValidation \/ SentParameters \/ ReportQuerys
  \/ ReportData \/ ReportValidationRules \/ ReportFinished \/ ReportValid
  \/ CreateReport \/ PendingReports \/ ManagerAllReports

\* The whole client against a backend of well-formed documents.
Spec == Init /\ [][Next]_vars

\* The helpers that read the page documents of a detail resource.
NextHistory ==
  \/ IsPersonApproved \/ IsCompanyApproved
  \/ PeopleAllReports \/ CompaniesAllReports \/ AllReportsNextPage

SpecHistory == InitHistory /\ [][NextHistory]_vars

\* A backend whose relatorios/{id}/dados document may lack the keys the
\* report predicates read.
InitReports == InitWith({FALSE}, {"two"}, {"two"}, ReportDocKinds)

\* The accessors of relatorios/{id}/dados.
NextReports == ReportData \/ ReportFinished \/ ReportValid

SpecReports == InitReports /\ [][NextReports]_vars

\* The tutorial script: is_workday called on dates of the years in Years.
SpecEmployee == Init /\ [][IsWorkday]_vars

(* =============================== claims =============================== *)

\* The string base + endpoint, for a base that ends with '/'.
UrlConcat(base, ep) ==
  [origin |-> base.origin, path |-> SubSeq(base.path, 1, Len(base.path) - 1) \o ep]

\* The header dictionary the client is configured with.
ConfiguredHeaders ==
  [k \in {"Content-Type", "Authorization"} |->
     IF k = "Content-Type" THEN "application/json" ELSE ctor.token]

Is2xx(st) == 200 <= st /\ st <= 299

\* The call has ended.
Done(op) == pc = "idle" /\ call.op = op

\* The page count a page document declares.
DeclaredTotal(d) == d["result"]["paginacao"]["total"].val

\* No response of the current call had a status make_request raises for.
NoHttpError == \A i \in 1..Len(received) : ~RaisesForStatus(received[i].status)

\* C1: every make_request(method, endpoint, data, params) sends exactly one
\* request, to base URL + endpoint, with the configured header and the given
\* body and query parameters; a 2xx response returns the parsed document,
\* any other status raises the HTTP error and returns nothing.
C1_MakeRequestContract ==
  Done("make_request") =>
    /\ Len(log) = 1
    /\ log[1].method = call.method
    /\ log[1].url = UrlConcat(BaseUrl, call.endpoint)
    /\ log[1].headers = ConfiguredHeaders
    /\ log[1].json = call.data
    /\ log[1].params = call.params
    /\ Is2xx(received[1].status) => outcome = Return(received[1].body)
    /\ ~Is2xx(received[1].status) =>
         outcome.kind = "raise" /\ outcome.error = "HTTPError"

(* ---- the whole client (Spec) ---- *)

\* C4: create_report routes the document by its length: exactly 14
\* characters give parametros.cnpj_numero = document and no cpf_numero, every
\* other length gives parametros.cpf_numero = document and no cnpj_numero; the
\* request is a POST to 'relatorios' with matriz as given.  (Stated for the
\* calls whose extra keywords name none of the routed keys.)
C4_RoutesByLength ==
  (/\ Done("create_report") /\ call.document # None
   /\ DOMAIN call.kwargs \cap {"cpf_numero", "cnpj_numero", "parametros"} = {}) =>
    LET doc == call.document.str
        par == log[1].json["parametros"]
    IN /\ Len(log) = 1
       /\ log[1].method = "POST"
       /\ log[1].url = UrlConcat(BaseUrl, <<"relatorios">>)
       /\ log[1].json["matriz"] = call.matriz
       /\ IF Len(doc) = 14
            THEN /\ "cnpj_numero" \in DOMAIN par /\ par["cnpj_numero"] = doc
                 /\ "cpf_numero" \notin DOMAIN par
            ELSE /\ "cpf_numero" \in DOMAIN par /\ par["cpf_numero"] = doc
                 /\ "cnpj_numero" \notin DOMAIN par

\* A 14-character document went out as cnpj_numero.
C4_Witness ==
  /\ Done("create_report") /\ call.document = Str("12345678901234")
  /\ call.kwargs = EmptyDict
  /\ Len(log) = 1
  /\ log[1].json["parametros"] = [cnpj_numero |-> "12345678901234"]

\* C5: the body of create_report has exactly the keys matriz and parametros;
\* the extra keywords appear inside parametros only and replace neither entry.
C5_ExtrasOnlyInParametros ==
  (Done("create_report") /\ call.document # None) =>
    LET body == log[1].json IN
      /\ DOMAIN body = {"matriz", "parametros"}
      /\ body["matriz"] = call.matriz
      /\ \A k \in DOMAIN call.kwargs :
           /\ k \in DOMAIN body["parametros"]
           /\ body["parametros"][k] = call.kwargs[k]

PagedOps == {"list_consulted", "get_details"}

\* rows and page as the caller's positional values or the defaults give them.
PositionalRows(pos) == IF Len(pos) >= 1 THEN pos[1] ELSE 25
PositionalPage(pos) == IF Len(pos) >= 2 THEN pos[2] ELSE 1

\* {rows, page} overwritten key by key with the dict extra.
MergedParams(rows, page, extra) ==
  [k \in {"rows", "page"} \cup DOMAIN extra |->
     IF k \in DOMAIN extra THEN extra[k] ELSE IF k = "rows" THEN rows ELSE page]

\* C7 as stated: the paged accessors send rows = size (25) and page = page (1)
\* merged with the caller's extra keywords; an extra keyword 'rows' or 'page'
\* silently replaces the derived value and no key is rejected.
C7_ExtrasAlwaysReplace ==
  (pc = "idle" /\ call.op \in PagedOps) =>
    /\ Len(log) = 1
    /\ log[1].params =
         MergedParams(PositionalRows(call.pos), PositionalPage(call.pos), call.kw)

\* C7 amended: as above, but a keyword 'page' (or 'size') is the parameter
\* itself, and a call that gives that parameter positionally as well is
\* rejected with a TypeError before any request is sent.
C7_PagedParams ==
  (pc = "idle" /\ call.op \in PagedOps) =>
    LET pos == call.pos
        kw == call.kw
        twice == \/ Len(pos) >= 1 /\ "size" \in DOMAIN kw
                 \/ Len(pos) >= 2 /\ "page" \in DOMAIN kw
        rows == IF "size" \in DOMAIN kw THEN kw["size"] ELSE PositionalRows(pos)
        page == IF "page" \in DOMAIN kw THEN kw["page"] ELSE PositionalPage(pos)
        extra == [k \in DOMAIN kw \ {"size", "page"} |-> kw[k]]
    IN IF twice
         THEN log = <<>> /\ outcome = Raise("TypeError", 0)
         ELSE /\ Len(log) = 1
              /\ log[1].method = "GET"
              /\ log[1].params = MergedParams(rows, page, extra)

\* An extra keyword 'rows' replaced the row count derived from size.
C7_Witness ==
  /\ pc = "idle" /\ call.op \in PagedOps
  /\ call.pos = <<10, 2>> /\ call.kw = [rows |-> 7]
  /\ Len(log) = 1
  /\ log[1].params = [rows |-> 7, page |-> 2]

C10_ClientUnchanged ==
  /\ token = ctor.token
  /\ base_url = BaseUrl
  /\ headers = ConfiguredHeaders
  /\ report_id = ctor.report_id

\* A call that failed has ended and the header still carries the token.
C10_Witness ==
  /\ pc = "idle" /\ call.op = "manual_validation"
  /\ outcome.kind = "raise"
  /\ headers["Authorization"] = ctor.token

(* ---- the helpers over the page documents (SpecHistory) ---- *)

Max(a, b) == IF a >= b THEN a ELSE b

\* The page has the envelope keys, the record list and the page count.
WellFormedPage(d) ==
  /\ "result" \in DOMAIN d
  /\ {"dados", "paginacao"} \subseteq DOMAIN d["result"]
  /\ "relatorios" \in DOMAIN d["result"]["dados"]

AllWellFormed == \A i \in 1..Len(received) : WellFormedPage(received[i].body)

\* The detail request of page k with the default row count.
ExpectedPageRequest(cls, id, k) ==
  [method |-> "GET",
   url |-> UrlConcat(BaseUrl, <<IF cls = "People" THEN "pessoas" ELSE "empresas", id>>),
   headers |-> ConfiguredHeaders,
   json |-> None,
   params |-> [rows |-> 25, page |-> k]]

\* The record lists of the responses, one after the other; a response
\* without the envelope keys contributes nothing.
RECURSIVE ConcatRecords(_)
ConcatRecords(resps) ==
  IF resps = <<>> THEN <<>>
  ELSE LET d == Head(resps).body IN
       (IF "result" \in DOMAIN d /\ "dados" \in DOMAIN d["result"]
          THEN d["result"]["dados"]["relatorios"] ELSE <<>>)
         \o ConcatRecords(Tail(resps))

\* C2: when the first page declares N pages and every page is well-formed
\* (and no request fails), all_reports issues exactly max(1, N) requests,
\* for pages 1, 2, ... in increasing order, one per page, and returns the
\* record lists of those pages concatenated in page order.
C2_AllReportsConcatenates ==
  (Done("all_reports") /\ NoHttpError /\ AllWellFormed) =>
    LET n == Max(1, DeclaredTotal(received[1].body)) IN
      /\ Len(log) = n
      /\ Len(received) = n
      /\ \A k \in 1..n : log[k] = ExpectedPageRequest(call.cls, call.id, k)
      /\ outcome = Return(ConcatRecords(received))

\* Three well-formed pages of two records each were fetched and returned.
C2_Witness ==
  /\ Done("all_reports") /\ NoHttpError /\ AllWellFormed
  /\ Len(log) = 3
  /\ outcome.kind = "return" /\ Len(outcome.value) = 6

\* C3: when the response of any page, the first included, lacks the
\* envelope keys, all_reports raises nothing and returns the records of the
\* well-formed pages only.
C3_MalformedPageSkipped ==
  (Done("all_reports") /\ NoHttpError /\ ~AllWellFormed) =>
    outcome = Return(ConcatRecords(received))

\* C6: is_person_approved / is_company_approved issue one detail request and
\* return whether relatorios[0].resultado is 'VALID'; an empty report list
\* raises IndexError and a missing key on the path raises KeyError.
C6_ApprovedIffValid ==
  Done("is_approved") =>
    /\ Len(log) = 1
    /\ log[1] = ExpectedPageRequest(call.cls, call.id, 1)
    /\ NoHttpError =>
         LET d == received[1].body
             hasList == /\ "result" \in DOMAIN d
                        /\ "dados" \in DOMAIN d["result"]
                        /\ "relatorios" \in DOMAIN d["result"]["dados"]
         IN IF ~hasList THEN outcome = Raise("KeyError", 0)
            ELSE LET rs == d["result"]["dados"]["relatorios"] IN
                 IF rs = <<>> THEN outcome = Raise("IndexError", 0)
                 ELSE IF "resultado" \notin DOMAIN rs[1]
                   THEN outcome = Raise("KeyError", 0)
                 ELSE outcome = Return(rs[1]["resultado"] = "VALID")

\* A first report that is finished but not 'VALID' was answered False.
C6_Witness ==
  /\ Done("is_approved") /\ NoHttpError
  /\ WellFormedPage(received[1].body)
  /\ received[1].body["result"]["dados"]["relatorios"] # <<>>
  /\ outcome = Return(FALSE)

\* C8: a read-only call repeated with the same arguments against an unchanged
\* backend returns what the first call returned.
C8_RepeatReturnsSame ==
  (pc = "idle" /\ prev.kind = "return" /\ outcome.kind = "return") =>
    outcome = prev

\* C11: create_report with an empty document ('') or an absent one (None,
\* the default when it is not supplied) raises a TypeError and sends no
\* request at all.
C11_EmptyDocumentFailsEarly ==
  (Done("create_report") /\ call.document \in {None, Str("")}) =>
    /\ outcome = Raise("TypeError", 0)
    /\ log = <<>>

\* The request report_data sends.
ExpectedDataRequest ==
  [method |-> "GET",
   url |-> UrlConcat(BaseUrl, <<"relatorios", ctor.report_id, "dados">>),
   headers |-> ConfiguredHeaders,
   json |-> None,
   params |-> None]

\* The document has a 'result' dict with the field in it.
HasResultField(d, field) ==
  /\ "result" \in DOMAIN d /\ d["result"] # None
  /\ field \in DOMAIN d["result"]

\* The 'result' key, or the field under it, is absent from the document.
LacksResultField(d, field) ==
  \/ "result" \notin DOMAIN d
  \/ d["result"] # None /\ field \notin DOMAIN d["result"]

\* What a report predicate reading result.field against a literal answers.
PredicateAnswer(field, literal) ==
  /\ Len(log) = 1
  /\ log[1] = ExpectedDataRequest
  /\ NoHttpError =>
       LET d == received[1].body IN
       /\ HasResultField(d, field) =>
            outcome = Return(d["result"][field] = literal)
       /\ LacksResultField(d, field) => outcome = Return(FALSE)

\* C12: report_finished returns True iff result.status of the report-data
\* document is 'CONCLUIDO', report_valid returns True iff result.resultado is
\* 'VALID'; with the 'result' key or the field absent they return False and
\* do not raise; each sends exactly one GET relatorios/{report_id}/dados.
C12_ReportPredicates ==
  /\ Done("report_finished") => PredicateAnswer("status", "CONCLUIDO")
  /\ Done("report_valid") => PredicateAnswer("resultado", "VALID")

\* report_valid answered False for a 2xx document without the 'result' key.
C12_Witness ==
  /\ Done("report_valid") /\ NoHttpError
  /\ Len(received) = 1 /\ "result" \notin DOMAIN received[1].body
  /\ outcome = Return(FALSE)

\* C13: is_workday(day) returns False when day is a Saturday (weekday 5) or
\* a Sunday (weekday 6), and True when its weekday is 0 to 4.
C13_WeekendIsNotWorkday ==
  workday # NoOutcome =>
    workday = Return(Weekday(day) \in 0..4)

====
